---- MODULE Spec2Model ----
(***************************************************************************)
(* Usage synchronisation of infracost (internal/usage/sync.go).            *)
(*                                                                         *)
(* The trees the pass builds are Go pointer structures: a *ResourceUsage   *)
(* holds []*schema.UsageItem, and an item's Value / DefaultValue is an     *)
(* interface{} holding a scalar, a []string or a *ResourceUsage.  The      *)
(* destination trees live in a heap of numbered objects, so that two       *)
(* fields holding the same pointer are the same object.  Source trees      *)
(* (reference file, UsageSchema, saved usage file) are only read by the    *)
(* code and are plain nested records.                                      *)
(***************************************************************************)
EXTENDS Naturals, Integers, Sequences, FiniteSets, TLC

VARIABLES
    heap,             \* the *ResourceUsage and *UsageItem objects allocated so far
    preHeap,          \* heap as it was before the most recent step that changed it
    pc,               \* position in syncResourceUsages (or the function under check)
    resources,        \* []*schema.Resource given to the pass
    usageFile,        \* usageFile.ResourceUsages
    existingOrder,    \* names of the usage file's entries, in file order
    resourceUsages,   \* the list being built: ids of *ResourceUsage
    syncResult,       \* *SyncResult
    idx,              \* index of the resource the loop is at
    cur,              \* resourceUsage of the current iteration (an id, 0 before it exists)
    resourceUsageMap, \* the map handed to EstimateUsage, as it is after the call
    estErr,           \* err of the EstimateUsage call of this iteration
    invoked,          \* resource indexes whose EstimateUsage was called, in call order
    lastSrc,          \* src of the most recent mergeResourceUsages call
    lastOpts          \* opts of the most recent mergeResourceUsages call

vars == <<heap, preHeap, pc, resources, usageFile, existingOrder, resourceUsages,
          syncResult, idx, cur, resourceUsageMap, estErr, invoked, lastSrc, lastOpts>>

-----------------------------------------------------------------------------
(* schema.UsageVariableType *)

Int64 == "Int64"
Float64 == "Float64"
String == "String"
StringArray == "StringArray"
SubResourceUsage == "SubResourceUsage"

(* An interface{} value: a nil interface, a scalar or array of the given Go
   shape (payload v), or a *ResourceUsage.  In the heap a *ResourceUsage is
   [t |-> "ru", v |-> id]; in a source tree v is the nested record. *)
Nil == [t |-> "nil", v |-> 0]
IsNil(x) == x.t = "nil"
Scalar(shape, n) == [t |-> shape, v |-> n]
Ref(id) == [t |-> "ru", v |-> id]

(* A source *schema.UsageItem and a source *ResourceUsage *)
Item(key, vt, def, val) ==
    [Key |-> key, ValueType |-> vt, Description |-> "", DefaultValue |-> def, Value |-> val]
Described(item, text) == [item EXCEPT !.Description = text]
RU(name, items) == [Name |-> name, Items |-> items]
Sub(ru) == [t |-> "ru", v |-> ru]
NilRU == [nil |-> TRUE]
IsNilRU(src) == "nil" \in DOMAIN src

-----------------------------------------------------------------------------
(* The heap *)

EmptyHeap == [rus |-> <<>>, items |-> <<>>]

\* &ResourceUsage{Name: name}
NewResourceUsage(h, name) == [h EXCEPT !.rus = Append(@, [Name |-> name, Items |-> <<>>])]

\* destItem = &schema.UsageItem{Key: ..., ValueType: ...}; dest.Items = append(dest.Items, destItem)
AppendNewItem(h, dest, key, vt) ==
    [h EXCEPT !.items = Append(@, [Key |-> key, ValueType |-> vt, Description |-> "",
                                   DefaultValue |-> Nil, Value |-> Nil]),
              !.rus[dest].Items = Append(@, Len(h.items) + 1)]

\* destItemMap: key -> item, a later item of the same key replacing an earlier one
DestItemMap(h, dest) ==
    LET its == h.rus[dest].Items
        keys == {h.items[its[i]].Key : i \in 1..Len(its)}
        last(k) == CHOOSE i \in 1..Len(its) :
                      /\ h.items[its[i]].Key = k
                      /\ \A j \in 1..Len(its) : h.items[its[j]].Key = k => j <= i
    IN [k \in keys |-> its[last(k)]]

-----------------------------------------------------------------------------
(* mergeResourceUsages *)

\* a faulty variant of OverrideType: the override is left out
OverrideTypeNever(h, it, srcItem, opts) == h

\* if opts.OverrideValueType { destItem.ValueType = srcItem.ValueType }
OverrideType(h, it, srcItem, opts) ==
    IF opts.OverrideValueType
    THEN [h EXCEPT !.items[it].ValueType = srcItem.ValueType]
    ELSE h

\* if srcItem.Description != "" { destItem.Description = srcItem.Description }
CopyDescription(h, it, srcItem) ==
    IF srcItem.Description # ""
    THEN [h EXCEPT !.items[it].Description = srcItem.Description]
    ELSE h

\* if destItem.DefaultValue == nil { destItem.DefaultValue = &ResourceUsage{Name: ...} }
EnsureDefault(h, it, name) ==
    IF IsNil(h.items[it].DefaultValue)
    THEN [NewResourceUsage(h, name) EXCEPT !.items[it].DefaultValue = Ref(Len(h.rus) + 1)]
    ELSE h

\* a faulty variant of SeedValue: an absent dest Value always becomes a fresh tree
SeedValueNever(h, it) == h

\* if destItem.Value == nil { destItem.Value = destItem.DefaultValue }
SeedValue(h, it) ==
    IF IsNil(h.items[it].Value)
    THEN [h EXCEPT !.items[it].Value = h.items[it].DefaultValue]
    ELSE h

\* if destItem.Value == nil { destItem.Value = &ResourceUsage{Name: srcValue.Name} }
EnsureValue(h, it, name) ==
    IF IsNil(h.items[it].Value)
    THEN [NewResourceUsage(h, name) EXCEPT !.items[it].Value = Ref(Len(h.rus) + 1)]
    ELSE h

\* a faulty variant of AssignScalars: src fills only the fields dest does not hold yet
AssignScalarsKeepingDest(h, it, srcItem) ==
    LET h1 == IF ~IsNil(srcItem.DefaultValue) /\ IsNil(h.items[it].DefaultValue)
              THEN [h EXCEPT !.items[it].DefaultValue = srcItem.DefaultValue]
              ELSE h
    IN IF ~IsNil(srcItem.Value) /\ IsNil(h.items[it].Value)
       THEN [h1 EXCEPT !.items[it].Value = srcItem.Value]
       ELSE h1

\* the else branch: a present src DefaultValue / Value replaces dest's
AssignScalars(h, it, srcItem) ==
    LET h1 == IF ~IsNil(srcItem.DefaultValue)
              THEN [h EXCEPT !.items[it].DefaultValue = srcItem.DefaultValue]
              ELSE h
    IN IF ~IsNil(srcItem.Value)
       THEN [h1 EXCEPT !.items[it].Value = srcItem.Value]
       ELSE h1

RECURSIVE mergeResourceUsages(_, _, _, _)
RECURSIVE MergeItems(_, _, _, _, _, _)

\* the body of the loop over src.Items, for one srcItem
MergeItem(h, dest, destItemMap, srcItem, opts) ==
    LET ok == srcItem.Key \in DOMAIN destItemMap
        h1 == IF ok THEN h ELSE AppendNewItem(h, dest, srcItem.Key, srcItem.ValueType)
        it == IF ok THEN destItemMap[srcItem.Key] ELSE Len(h.items) + 1
        h2 == CopyDescription(OverrideType(h1, it, srcItem, opts), it, srcItem)
    IN IF srcItem.ValueType = SubResourceUsage
       THEN LET h3 == IF ~IsNil(srcItem.DefaultValue)
                      THEN LET g == EnsureDefault(h2, it, srcItem.DefaultValue.v.Name)
                           IN mergeResourceUsages(g, g.items[it].DefaultValue.v,
                                                  srcItem.DefaultValue.v, opts)
                      ELSE h2
            IN IF ~IsNil(srcItem.Value)
               THEN LET g == EnsureValue(SeedValue(h3, it), it, srcItem.Value.v.Name)
                    IN mergeResourceUsages(g, g.items[it].Value.v, srcItem.Value.v, opts)
               ELSE h3
       ELSE AssignScalars(h2, it, srcItem)

MergeItems(h, dest, destItemMap, src, opts, i) ==
    IF i > Len(src.Items)
    THEN h
    ELSE MergeItems(MergeItem(h, dest, destItemMap, src.Items[i], opts),
                    dest, destItemMap, src, opts, i + 1)

\* dest is an id (0 for a nil dest); src is a source tree (Nil for a nil src)
mergeResourceUsages(h, dest, src, opts) ==
    IF dest = 0 \/ IsNilRU(src)
    THEN h
    ELSE MergeItems(h, dest, DestItemMap(h, dest), src, opts, 1)

-----------------------------------------------------------------------------
(* ResourceUsage.Map, schema.ParseAttributes and schema.UsageData.

   The map handed to EstimateUsage, and the UsageData parsed from it, is a
   function from paths (sequences of keys) to JSON values: a scalar of some
   shape, or MapNode for a nested map (whose entries are the longer paths).
   A path outside the domain is gjson's Null, as is a key set to nil. *)

MapNode == [t |-> "map", v |-> 0]
Null == [t |-> "null", v |-> 0]
EmptyMap == [p \in {} |-> Null]

AsFunction(entries) ==
    [p \in {e[1] : e \in entries} |-> (CHOOSE e \in entries : e[1] = p)[2]]

\* the entries of r.Map(): the items holding a Value, nested trees as nested maps
RECURSIVE MapEntries(_, _, _)
MapEntries(h, ru, prefix) ==
    LET its == h.rus[ru].Items
        entry(I) ==
            IF IsNil(I.Value)
            THEN {}
            ELSE IF I.Value.t = "ru"
                 THEN {<<Append(prefix, I.Key), MapNode>>}
                      \cup MapEntries(h, I.Value.v, Append(prefix, I.Key))
                 ELSE {<<Append(prefix, I.Key), I.Value>>}
    IN UNION {entry(h.items[its[i]]) : i \in 1..Len(its)}

Map(h, ru) == AsFunction(MapEntries(h, ru, <<>>))

\* usageData.Get(key): the attribute, Null when there is none
Get(u, key) == IF <<key>> \in DOMAIN u THEN u[<<key>>] ELSE Null

\* usageData.Get(key).Map(): the entries below key; empty unless key holds a map
SubMap(u, key) ==
    IF Get(u, key).t = "map"
    THEN LET below == {q \in DOMAIN u : Len(q) > 1 /\ q[1] = key}
         IN [p \in {Tail(q) : q \in below} |-> u[<<key>> \o p]]
    ELSE EmptyMap

\* GetInt / GetFloat / GetString / GetStringArray: nil for Null, and otherwise
\* the attribute converted to the Go type asked for
GetTyped(u, key, shape) ==
    IF Get(u, key).t # "null" THEN Scalar(shape, Get(u, key).v) ELSE Nil

-----------------------------------------------------------------------------
(* mergeResourceUsageWithUsageData *)

\* a faulty variant of QualifyingSubItems: every default sub-item is taken over
AllSubItems(h, defaultRU, subExisting) == h.rus[defaultRU].Items

\* the default sub-items whose key is not Null in the usage data (lines 207-213)
QualifyingSubItems(h, defaultRU, subExisting) ==
    SelectSeq(h.rus[defaultRU].Items,
              LAMBDA it : Get(subExisting, h.items[it].Key).t # "null")

\* if val != nil { item.Value = val }
AssignValue(h, it, val) ==
    IF ~IsNil(val) THEN [h EXCEPT !.items[it].Value = val] ELSE h

RECURSIVE mergeResourceUsageWithUsageData(_, _, _)
RECURSIVE MergeBackItems(_, _, _, _)

\* the body of the loop over resourceUsage.Items, for one item
MergeBackItem(h, it, usageData) ==
    LET item == h.items[it]
    IN IF item.ValueType \in {Int64, Float64, String, StringArray}
       THEN AssignValue(h, it, GetTyped(usageData, item.Key, item.ValueType))
       ELSE IF item.ValueType = SubResourceUsage
       THEN LET subExisting == SubMap(usageData, item.Key)
            IN IF ~IsNil(item.Value)
               THEN AssignValue(
                        mergeResourceUsageWithUsageData(h, item.Value.v, subExisting),
                        it, item.Value)
               ELSE IF ~IsNil(item.DefaultValue)
               THEN LET subItems == QualifyingSubItems(h, item.DefaultValue.v, subExisting)
                        \* subResourceUsage = &ResourceUsage{Name: item.Key} with subItems
                        g == [h EXCEPT !.rus = Append(@, [Name |-> item.Key,
                                                          Items |-> subItems])]
                        sub == Len(h.rus) + 1
                    IN IF subItems = <<>>
                       THEN h
                       ELSE AssignValue(
                                mergeResourceUsageWithUsageData(g, sub, subExisting),
                                it, Ref(sub))
               ELSE h
       ELSE h

MergeBackItems(h, items, usageData, i) ==
    IF i > Len(items)
    THEN h
    ELSE MergeBackItems(MergeBackItem(h, items[i], usageData), items, usageData, i + 1)

mergeResourceUsageWithUsageData(h, resourceUsage, usageData) ==
    MergeBackItems(h, h.rus[resourceUsage].Items, usageData, 1)

-----------------------------------------------------------------------------
(* sortResourceUsages *)

\* indexOf: the first position of s in arr, counted from 0, or -1
indexOf(s, arr) ==
    IF \E k \in 1..Len(arr) : arr[k] = s
    THEN (CHOOSE k \in 1..Len(arr) : arr[k] = s /\ \A j \in 1..(k - 1) : arr[j] # s) - 1
    ELSE -1

resourceUsageHasValue(h, ru) ==
    \E i \in 1..Len(h.rus[ru].Items) : ~IsNil(h.items[h.rus[ru].Items[i]].Value)

\* Go compares strings byte by byte; the names used here are single letters
NameRank(name) == CHOOSE k \in 1..3 : <<"X", "Y", "Z">>[k] = name
NameLess(a, b) == NameRank(a) < NameRank(b)

\* a faulty variant of Less: the has-a-value comparison the wrong way round
LessValueLast(h, a, b, order) ==
    LET iExistingIndex == indexOf(h.rus[a].Name, order)
        jExistingIndex == indexOf(h.rus[b].Name, order)
        iHasUsage == resourceUsageHasValue(h, a)
        jHasUsage == resourceUsageHasValue(h, b)
    IN IF iExistingIndex # -1 /\ jExistingIndex # -1 THEN iExistingIndex < jExistingIndex
       ELSE IF iExistingIndex = -1 /\ jExistingIndex # -1 THEN FALSE
       ELSE IF jExistingIndex = -1 /\ iExistingIndex # -1 THEN TRUE
       ELSE IF iHasUsage /\ ~jHasUsage THEN FALSE
       ELSE IF jHasUsage /\ ~iHasUsage THEN TRUE
       ELSE NameLess(h.rus[a].Name, h.rus[b].Name)

\* the less function given to sort.Slice
Less(h, a, b, order) ==
    LET iExistingIndex == indexOf(h.rus[a].Name, order)
        jExistingIndex == indexOf(h.rus[b].Name, order)
        iHasUsage == resourceUsageHasValue(h, a)
        jHasUsage == resourceUsageHasValue(h, b)
    IN IF iExistingIndex # -1 /\ jExistingIndex # -1 THEN iExistingIndex < jExistingIndex
       ELSE IF iExistingIndex = -1 /\ jExistingIndex # -1 THEN FALSE
       ELSE IF jExistingIndex = -1 /\ iExistingIndex # -1 THEN TRUE
       ELSE IF iHasUsage /\ ~jHasUsage THEN TRUE
       ELSE IF jHasUsage /\ ~iHasUsage THEN FALSE
       ELSE NameLess(h.rus[a].Name, h.rus[b].Name)

\* sort.Slice is not stable: every arrangement of the list that Less leaves no
\* pair out of order in is a possible outcome
sortResourceUsages(h, list, order) ==
    LET n == Len(list)
        Perms == {p \in [1..n -> 1..n] : \A i, j \in 1..n : i # j => p[i] # p[j]}
        arranged(p) == [i \in 1..n |-> list[p[i]]]
    IN {arranged(p) : p \in {q \in Perms :
            \A i, j \in 1..n : i < j => ~Less(h, list[q[j]], list[q[i]], order)}}

-----------------------------------------------------------------------------
(* Inputs of a pass.

   A key names a nested usage tree in every source or a scalar / array in
   every source (with a source of the other kind the type assertions of
   mergeResourceUsages panic); the scalar types of a key may differ from
   source to source.  The reference file holds DefaultValues only
   (SetDefaultValues); a usage file read from disk holds Values only, one
   that an earlier pass has rewritten in memory holds DefaultValues too. *)

MaxResources == 2

Names == {"X", "Y", "Z"}

NoOverride == [OverrideValueType |-> FALSE]
Override == [OverrideValueType |-> TRUE]

\* referenceFile.FindMatchingResourceUsage(name), over a fixed catalogue
FindMatchingResourceUsage(name) ==
    CASE name = "X" ->
           RU("X", <<Described(Item("k", String, Scalar(String, 7), Nil), "requests")>>)
      [] name = "Y" ->
           RU("Y", <<Item("k", Float64, Scalar(Float64, 7), Nil),
                     Item("s", SubResourceUsage,
                          Sub(RU("s", <<Item("a", String, Scalar(String, 7), Nil),
                                        Item("c", Int64, Scalar(Int64, 7), Nil)>>)),
                          Nil)>>)
      [] OTHER -> NilRU

\* resource.UsageSchema of the resource type that `name` is of
UsageSchemaOf(name) ==
    CASE name = "X" ->
           <<Item("k", Float64, Scalar(Float64, 1), Scalar(Float64, 2)),
             Item("l", StringArray, Scalar(StringArray, 1), Nil),
             Item("s", SubResourceUsage,
                  Sub(RU("s", <<Item("a", Int64, Scalar(Int64, 1), Nil),
                                Item("b", String, Scalar(String, 1), Nil)>>)),
                  Nil)>>
      [] name = "Y" ->
           <<Item("k", Float64, Nil, Nil),
             Item("s", SubResourceUsage,
                  Sub(RU("s", <<Item("a", Int64, Scalar(Int64, 1), Nil),
                                Item("t", SubResourceUsage,
                                     Sub(RU("t", <<Item("c", Int64, Scalar(Int64, 1), Nil)>>)),
                                     Nil)>>)),
                  Nil)>>
      [] OTHER ->
           <<Item("k", Int64, Scalar(Int64, 1), Nil)>>

\* what EstimateUsage does to the map it is given: the top-level keys it
\* assigns (a nested map as the entries below the key), and the error it returns
NoEstimate == [nil |-> TRUE, writes |-> {}, err |-> FALSE]
Estimate(writes, err) == [nil |-> FALSE, writes |-> writes, err |-> err]

WriteK == {<<(<<"k">>), Scalar(Int64, 9)>>}
WriteSA == {<<(<<"s">>), MapNode>>, <<(<<"s", "a">>), Scalar(Float64, 9)>>}
WriteSAT == {<<(<<"s">>), MapNode>>, <<(<<"s", "a">>), Scalar(Float64, 9)>>,
             <<(<<"s", "t">>), MapNode>>, <<(<<"s", "t", "c">>), Scalar(Int64, 9)>>}
WriteST == {<<(<<"s">>), MapNode>>, <<(<<"s", "t">>), MapNode>>}

Estimators ==
    {NoEstimate, Estimate({}, TRUE), Estimate(WriteK, FALSE), Estimate(WriteK, TRUE),
     Estimate(WriteSA, FALSE), Estimate(WriteSAT, FALSE), Estimate(WriteST, FALSE)}

Resources ==
    {[Name |-> n, UsageSchema |-> UsageSchemaOf(n), EstimateUsage |-> e] :
        n \in Names, e \in Estimators}

\* the entries a saved usage file may hold for a resource
SavedUsages(name) ==
    {RU(name, <<Item("k", Int64, Nil, Scalar(Int64, 5))>>),
     RU(name, <<Item("k", Float64, Scalar(Float64, 3), Scalar(Float64, 4)),
                Item("l", StringArray, Nil, Scalar(StringArray, 4))>>),
     RU(name, <<Item("s", SubResourceUsage, Nil,
                     Sub(RU("s", <<Item("a", Float64, Nil, Scalar(Float64, 5)),
                                   Item("x", StringArray, Nil, Scalar(StringArray, 6))>>)))>>)}

FileNames == {"X", "Y"}

UsageFiles ==
    {f \in UNION {[1..n -> UNION {SavedUsages(m) : m \in FileNames}] :
                     n \in 0..Cardinality(FileNames)} :
        \A i, j \in DOMAIN f : i # j => f[i].Name # f[j].Name}

\* the EstimateUsage call: the map after the estimator has written to it
ApplyWrites(m, writes) ==
    LET written == {e[1][1] : e \in writes}
    IN AsFunction({<<p, m[p]>> : p \in {q \in DOMAIN m : q[1] \notin written}}
                  \cup {e \in writes : e[2].t # "null"})

-----------------------------------------------------------------------------
(* syncResourceUsages *)

\* resourceUsagesMap: name -> entry, a later entry of the same name winning
resourceUsagesMap(file, name) ==
    IF \E i \in DOMAIN file : file[i].Name = name
    THEN file[CHOOSE i \in DOMAIN file :
                 /\ file[i].Name = name
                 /\ \A j \in DOMAIN file : file[j].Name = name => j <= i]
    ELSE NilRU

\* the nested record of a heap tree, as the usage file holds it afterwards
RECURSIVE TreeOf(_, _)
ValueOf(h, x) == IF x.t = "ru" THEN Sub(TreeOf(h, x.v)) ELSE x
TreeOf(h, ru) ==
    [Name |-> h.rus[ru].Name,
     Items |-> [i \in 1..Len(h.rus[ru].Items) |->
                   LET I == h.items[h.rus[ru].Items[i]]
                   IN [Key |-> I.Key, ValueType |-> I.ValueType,
                       Description |-> I.Description,
                       DefaultValue |-> ValueOf(h, I.DefaultValue),
                       Value |-> ValueOf(h, I.Value)]]]

NoErrors == [n \in {} |-> "error"]
NextPc(i) == IF i > Len(resources) THEN "sort" ELSE "reference"

Init ==
    /\ resources \in UNION {[1..n -> Resources] : n \in 0..MaxResources}
    /\ usageFile \in UsageFiles
    /\ existingOrder = [i \in DOMAIN usageFile |-> usageFile[i].Name]
    /\ syncResult = [ResourceCount |-> 0, EstimationCount |-> 0,
                     EstimationErrors |-> NoErrors]
    /\ resourceUsages = <<>>
    /\ heap = EmptyHeap
    /\ preHeap = EmptyHeap
    /\ idx = 1
    /\ cur = 0
    /\ pc = NextPc(1)
    /\ resourceUsageMap = EmptyMap
    /\ estErr = FALSE
    /\ invoked = <<>>
    /\ lastSrc = NilRU
    /\ lastOpts = NoOverride

\* lines 55-63: the fresh resourceUsage, and the merge of the reference usage
MergeReference ==
    /\ pc = "reference"
    /\ LET h0 == NewResourceUsage(heap, resources[idx].Name)
           refResourceUsage == FindMatchingResourceUsage(resources[idx].Name)
       IN /\ cur' = Len(heap.rus) + 1
          /\ preHeap' = h0
          /\ heap' = mergeResourceUsages(h0, cur', refResourceUsage, NoOverride)
          /\ lastSrc' = refResourceUsage
    /\ lastOpts' = NoOverride
    /\ pc' = "schema"
    /\ UNCHANGED <<resources, usageFile, existingOrder, resourceUsages, syncResult, idx,
                   resourceUsageMap, estErr, invoked>>

\* lines 65-71: the merge of the resource's UsageSchema, overriding the value types
MergeSchema ==
    /\ pc = "schema"
    /\ LET src == RU(resources[idx].Name, resources[idx].UsageSchema)
       IN /\ heap' = mergeResourceUsages(heap, cur, src, Override)
          /\ lastSrc' = src
    /\ preHeap' = heap
    /\ lastOpts' = Override
    /\ pc' = "existing"
    /\ UNCHANGED <<resources, usageFile, existingOrder, resourceUsages, syncResult, idx,
                   cur, resourceUsageMap, estErr, invoked>>

\* lines 73-80 and 95: the merge of the saved usage; a resource with no
\* EstimateUsage is appended to the list
MergeExisting ==
    /\ pc = "existing"
    /\ LET existingResourceUsage == resourceUsagesMap(usageFile, resources[idx].Name)
       IN /\ heap' = mergeResourceUsages(heap, cur, existingResourceUsage, NoOverride)
          /\ lastSrc' = existingResourceUsage
    /\ preHeap' = heap
    /\ lastOpts' = NoOverride
    /\ syncResult' = [syncResult EXCEPT !.ResourceCount = @ + 1]
    /\ IF resources[idx].EstimateUsage.nil
       THEN /\ resourceUsages' = Append(resourceUsages, cur)
            /\ idx' = idx + 1
            /\ pc' = NextPc(idx + 1)
       ELSE /\ pc' = "estimate"
            /\ UNCHANGED <<resourceUsages, idx>>
    /\ UNCHANGED <<resources, usageFile, existingOrder, cur, resourceUsageMap, estErr,
                   invoked>>

\* a faulty variant of EstimateUsage: an estimation error ends the loop
EstimateUsageAborting ==
    /\ pc = "estimate"
    /\ LET est == resources[idx].EstimateUsage
       IN /\ resourceUsageMap' = ApplyWrites(Map(heap, cur), est.writes)
          /\ estErr' = est.err
          /\ syncResult' =
                [syncResult EXCEPT
                    !.EstimationCount = @ + 1,
                    !.EstimationErrors =
                        IF est.err THEN (resources[idx].Name :> "error") @@ @ ELSE @]
          /\ pc' = IF est.err THEN "sort" ELSE "mergeback"
    /\ invoked' = Append(invoked, idx)
    /\ preHeap' = heap
    /\ UNCHANGED <<heap, resources, usageFile, existingOrder, resourceUsages, idx, cur,
                   lastSrc, lastOpts>>

\* lines 81-88: the EstimateUsage call on resourceUsage.Map()
EstimateUsage ==
    /\ pc = "estimate"
    /\ LET est == resources[idx].EstimateUsage
       IN /\ resourceUsageMap' = ApplyWrites(Map(heap, cur), est.writes)
          /\ estErr' = est.err
          /\ syncResult' =
                [syncResult EXCEPT
                    !.EstimationCount = @ + 1,
                    !.EstimationErrors =
                        IF est.err THEN (resources[idx].Name :> "error") @@ @ ELSE @]
    /\ invoked' = Append(invoked, idx)
    /\ preHeap' = heap
    /\ pc' = "mergeback"
    /\ UNCHANGED <<heap, resources, usageFile, existingOrder, resourceUsages, idx, cur,
                   lastSrc, lastOpts>>

\* lines 90-95: the merge of the estimated usage, and the append to the list
MergeEstimated ==
    /\ pc = "mergeback"
    /\ heap' = mergeResourceUsageWithUsageData(heap, cur, resourceUsageMap)
    /\ preHeap' = heap
    /\ resourceUsages' = Append(resourceUsages, cur)
    /\ idx' = idx + 1
    /\ pc' = NextPc(idx + 1)
    /\ UNCHANGED <<resources, usageFile, existingOrder, syncResult, cur, resourceUsageMap,
                   estErr, invoked, lastSrc, lastOpts>>

\* lines 98-102: the sort, and the replacement of the usage file's entries
SortAndReplace ==
    /\ pc = "sort"
    /\ \E sorted \in sortResourceUsages(heap, resourceUsages, existingOrder) :
          /\ resourceUsages' = sorted
          /\ usageFile' = [i \in 1..Len(sorted) |-> TreeOf(heap, sorted[i])]
    /\ pc' = "done"
    /\ UNCHANGED <<heap, preHeap, resources, existingOrder, syncResult, idx, cur,
                   resourceUsageMap, estErr, invoked, lastSrc, lastOpts>>

Next ==
    \/ MergeReference
    \/ MergeSchema
    \/ MergeExisting
    \/ EstimateUsage
    \/ MergeEstimated
    \/ SortAndReplace

Spec == Init /\ [][Next]_vars

-----------------------------------------------------------------------------
(* mergeResourceUsages on its own: a fresh resourceUsage, and up to MaxMerges
   calls with sources and options of any kind. *)

MaxMerges == 3

SubOf(key, def, val) == Item(key, SubResourceUsage, def, val)

MergeSources ==
    {FindMatchingResourceUsage(n) : n \in {"X", "Y"}}
    \cup {RU(n, UsageSchemaOf(n)) : n \in Names}
    \cup SavedUsages("X")
    \cup {RU("X", <<SubOf("s", Sub(RU("s", <<Item("c", Int64, Scalar(Int64, 7), Nil)>>)),
                           Sub(RU("s", <<Item("a", Float64, Nil, Scalar(Float64, 8)),
                                         Item("x", String, Nil, Scalar(String, 6))>>)))>>),
          RU("X", <<SubOf("s", Nil, Nil)>>)}

MergeInit ==
    /\ heap = NewResourceUsage(EmptyHeap, "X")
    /\ preHeap = heap
    /\ cur = 1
    /\ idx = 0
    /\ pc = "merge"
    /\ lastSrc = NilRU
    /\ lastOpts = NoOverride
    /\ resources = <<>>
    /\ usageFile = <<>>
    /\ existingOrder = <<>>
    /\ resourceUsages = <<>>
    /\ syncResult = [ResourceCount |-> 0, EstimationCount |-> 0,
                     EstimationErrors |-> NoErrors]
    /\ resourceUsageMap = EmptyMap
    /\ estErr = FALSE
    /\ invoked = <<>>

\* one call mergeResourceUsages(dest, src, opts); idx counts the calls made
MergeCall ==
    /\ pc = "merge"
    /\ idx < MaxMerges
    /\ \E src \in MergeSources, opts \in {NoOverride, Override} :
          /\ heap' = mergeResourceUsages(heap, cur, src, opts)
          /\ lastSrc' = src
          /\ lastOpts' = opts
    /\ preHeap' = heap
    /\ idx' = idx + 1
    /\ UNCHANGED <<pc, cur, resources, usageFile, existingOrder, resourceUsages,
                   syncResult, resourceUsageMap, estErr, invoked>>

MergeSpec == MergeInit /\ [][MergeCall]_vars

-----------------------------------------------------------------------------
(* sortResourceUsages on its own: lists of up to MaxSortLen built trees, each
   with or without a Value, under every persisted order. *)

MaxSortLen == 3

\* a resourceUsage per entry of list: one item "k", holding a Value or not
RECURSIVE BuiltTrees(_, _, _)
BuiltTrees(h, list, i) ==
    IF i > Len(list)
    THEN h
    ELSE LET h1 == AppendNewItem(NewResourceUsage(h, list[i].Name), Len(h.rus) + 1,
                                 "k", Float64)
             h2 == IF list[i].hasValue
                   THEN [h1 EXCEPT !.items[Len(h1.items)].Value = Scalar(Float64, 5)]
                   ELSE h1
         IN BuiltTrees(h2, list, i + 1)

DistinctSeqs(S) ==
    {q \in UNION {[1..n -> S] : n \in 0..Cardinality(S)} :
        \A i, j \in DOMAIN q : i # j => q[i] # q[j]}

SortInit ==
    /\ \E list \in UNION {[1..n -> [Name : Names, hasValue : BOOLEAN]] :
                            n \in 0..MaxSortLen} :
          /\ heap = BuiltTrees(EmptyHeap, list, 1)
          /\ resourceUsages = [i \in 1..Len(list) |-> i]
          /\ resources = [i \in 1..Len(list) |->
                            [Name |-> list[i].Name, UsageSchema |-> <<>>,
                             EstimateUsage |-> NoEstimate]]
    /\ existingOrder \in DistinctSeqs(Names)
    /\ usageFile = [i \in DOMAIN existingOrder |-> RU(existingOrder[i], <<>>)]
    /\ preHeap = heap
    /\ pc = "sort"
    /\ idx = Len(resources) + 1
    /\ cur = 0
    /\ syncResult = [ResourceCount |-> Len(resources), EstimationCount |-> 0,
                     EstimationErrors |-> NoErrors]
    /\ resourceUsageMap = EmptyMap
    /\ estErr = FALSE
    /\ invoked = <<>>
    /\ lastSrc = NilRU
    /\ lastOpts = NoOverride

SortSpec == SortInit /\ [][SortAndReplace]_vars

-----------------------------------------------------------------------------
(* Views of a heap tree used to state the properties *)

\* what a field holds, without the identity of a nested tree
Held(x) == IF x.t = "ru" THEN <<"ru", 0>> ELSE <<x.t, x.v>>

\* everything a tree holds: for each item, at the path of keys and edges that
\* leads to it, its position and ValueType and what its two fields hold
RECURSIVE TreeFacts(_, _, _)
TreeFacts(h, ru, prefix) ==
    LET its == h.rus[ru].Items
        below(x, path) == IF x.t = "ru" THEN TreeFacts(h, x.v, path) ELSE {}
        facts(i) ==
            LET I == h.items[its[i]]
                path == Append(prefix, I.Key)
            IN {<<path, "ValueType", I.ValueType, i>>,
                <<path, "Value", Held(I.Value)[1], Held(I.Value)[2]>>,
                <<path, "DefaultValue", Held(I.DefaultValue)[1], Held(I.DefaultValue)[2]>>}
               \cup below(I.Value, Append(path, "Value"))
               \cup below(I.DefaultValue, Append(path, "DefaultValue"))
    IN UNION {facts(i) : i \in 1..Len(its)}

\* the item of a heap tree with the given key (0 when there is none)
ItemAt(h, ru, key) ==
    IF \E i \in 1..Len(h.rus[ru].Items) : h.items[h.rus[ru].Items[i]].Key = key
    THEN LET i == CHOOSE i \in 1..Len(h.rus[ru].Items) :
                     h.items[h.rus[ru].Items[i]].Key = key
         IN h.rus[ru].Items[i]
    ELSE 0

\* a field of the item of a heap tree with the given key (Nil when there is none)
FieldAt(h, ru, key, field) ==
    IF ItemAt(h, ru, key) = 0 THEN Nil ELSE h.items[ItemAt(h, ru, key)][field]

KeysOf(h, ru) == {h.items[h.rus[ru].Items[i]].Key : i \in 1..Len(h.rus[ru].Items)}

\* the ValueType of the item of a heap tree with the given key
TypeAt(h, ru, key) ==
    IF ItemAt(h, ru, key) = 0 THEN "none" ELSE h.items[ItemAt(h, ru, key)].ValueType

\* the same for source trees
SrcItems(src) == IF IsNilRU(src) THEN {} ELSE {src.Items[i] : i \in 1..Len(src.Items)}
SrcKeys(src) == {I.Key : I \in SrcItems(src)}
SrcField(src, key, field) ==
    IF key \in SrcKeys(src)
    THEN (CHOOSE I \in SrcItems(src) : I.Key = key)[field]
    ELSE Nil

\* every item reachable in a heap tree, through Value and DefaultValue alike
RECURSIVE AllItems(_, _)
AllItems(h, ru) ==
    LET its == h.rus[ru].Items
        below(x) == IF x.t = "ru" THEN AllItems(h, x.v) ELSE {}
    IN UNION {{its[i]} \cup below(h.items[its[i]].Value)
                       \cup below(h.items[its[i]].DefaultValue) : i \in 1..Len(its)}

\* positions of the pass
Estimable(i) == ~resources[i].EstimateUsage.nil
\* the tree `cur` has just been built from the three sources (line 77 is behind)
JustBuilt ==
    \/ pc = "estimate"
    \/ pc \in {"reference", "sort"} /\ idx > 1 /\ ~Estimable(idx - 1)
BuiltFor == resources[IF pc = "estimate" THEN idx ELSE idx - 1]
\* the estimated usage has just been merged into `cur` (line 92 is behind);
\* preHeap is the heap the EstimateUsage call was made on
JustEstimated == pc \in {"reference", "sort"} /\ idx > 1 /\ Estimable(idx - 1)

-----------------------------------------------------------------------------
(* C1. Estimation isolation: when the EstimateUsage call of a resource returns
   an error, the resource's usage tree after the merge of the estimated usage
   (keys, ValueTypes, Values and DefaultValues at every depth) equals the tree
   the call was made on, whatever the estimator wrote into the map. *)
C1_FailedEstimationLeavesTree ==
    (JustEstimated /\ estErr) =>
        TreeFacts(heap, cur, <<>>) = TreeFacts(preHeap, cur, <<>>)

(* C2. The estimators are invoked in resource-list order, exactly once for
   each resource that has one, a failure stopping none of the later ones; at
   the end of the loop EstimationCount is the number of resources with an
   estimator, ResourceCount the number of resources, and the keys of
   EstimationErrors are the names of the resources whose call failed. *)
C2_SequentialEstimation ==
    LET n == Len(resources)
        reached(i) == i < idx \/ (i = idx /\ pc = "mergeback")
    IN /\ invoked = SelectSeq([i \in 1..n |-> i], LAMBDA i : Estimable(i) /\ reached(i))
       /\ pc \in {"sort", "done"} =>
             /\ syncResult.EstimationCount = Cardinality({i \in 1..n : Estimable(i)})
             /\ syncResult.ResourceCount = n
             /\ DOMAIN syncResult.EstimationErrors =
                   {resources[i].Name : i \in {j \in 1..n : resources[j].EstimateUsage.err}}

C2_Witness ==
    /\ pc = "done"
    /\ Len(resources) = 2
    /\ resources[1].EstimateUsage.err
    /\ Estimable(2) /\ ~resources[2].EstimateUsage.err
    /\ invoked = <<1, 2>>
    /\ syncResult.EstimationCount = 2
    /\ DOMAIN syncResult.EstimationErrors = {resources[1].Name}

(* C3. Value precedence: for every scalar or array key K of a resource, the
   tree built before estimation holds as Value (and as DefaultValue) what the
   saved usage gives for K if it gives one, otherwise what the resource's
   UsageSchema gives, otherwise what the reference usage gives, and nothing
   only when none of the three gives one. *)
FirstPresent(a, b, c) == IF ~IsNil(a) THEN a ELSE IF ~IsNil(b) THEN b ELSE c
SourcesOf(name) ==
    <<resourceUsagesMap(usageFile, name), RU(name, UsageSchemaOf(name)),
      FindMatchingResourceUsage(name)>>
ScalarKeys(name) ==
    {I.Key : I \in {J \in UNION {SrcItems(SourcesOf(name)[i]) : i \in 1..3} :
                       J.ValueType # SubResourceUsage}}
C3_ValuePrecedence ==
    JustBuilt =>
        LET from == SourcesOf(BuiltFor.Name)
        IN \A K \in ScalarKeys(BuiltFor.Name), field \in {"Value", "DefaultValue"} :
              FieldAt(heap, cur, K, field) =
                  FirstPresent(SrcField(from[1], K, field), SrcField(from[2], K, field),
                               SrcField(from[3], K, field))

C3_Witness ==
    /\ JustBuilt
    /\ LET from == SourcesOf(BuiltFor.Name)
       IN /\ ~IsNil(SrcField(from[1], "k", "Value"))
          /\ ~IsNil(SrcField(from[2], "k", "Value"))
          /\ SrcField(from[1], "k", "Value") # SrcField(from[2], "k", "Value")
          /\ FieldAt(heap, cur, "k", "Value") = SrcField(from[1], "k", "Value")
          /\ IsNil(SrcField(from[1], "k", "DefaultValue"))
          /\ ~IsNil(SrcField(from[3], "k", "DefaultValue"))
          /\ SrcField(from[2], "k", "DefaultValue") # SrcField(from[3], "k", "DefaultValue")
          /\ FieldAt(heap, cur, "k", "DefaultValue") = SrcField(from[2], "k", "DefaultValue")

(* C4. Type override: right after the merge of the UsageSchema (made with
   OverrideValueType) every item of the tree whose key occurs in the schema
   has the schema's ValueType, and from then on to the end of the pass every
   item at a key path the UsageSchema declares, at any depth, has the declared
   ValueType, whatever types the reference usage and the saved usage carry. *)
RECURSIVE DeclaredTypes(_, _)
DeclaredTypes(items, prefix) ==
    LET below(x, path) == IF x.t = "ru" THEN DeclaredTypes(x.v.Items, path) ELSE {}
    IN UNION {{<<Append(prefix, items[i].Key), items[i].ValueType>>}
              \cup below(items[i].DefaultValue, Append(prefix, items[i].Key))
              \cup below(items[i].Value, Append(prefix, items[i].Key)) :
                 i \in 1..Len(items)}
RECURSIVE TreeTypes(_, _, _)
TreeTypes(h, ru, prefix) ==
    LET its == h.rus[ru].Items
        below(x, path) == IF x.t = "ru" THEN TreeTypes(h, x.v, path) ELSE {}
    IN UNION {LET I == h.items[its[i]]
              IN {<<Append(prefix, I.Key), I.ValueType>>}
                 \cup below(I.DefaultValue, Append(prefix, I.Key))
                 \cup below(I.Value, Append(prefix, I.Key)) : i \in 1..Len(its)}
TypesAsDeclared(h, ru) ==
    \A d \in DeclaredTypes(UsageSchemaOf(h.rus[ru].Name), <<>>) :
        \A t \in TreeTypes(h, ru, <<>>) : d[1] = t[1] => d[2] = t[2]
C4_TypeOverride ==
    /\ pc = "existing" =>
          \A I \in SrcItems(lastSrc) : TypeAt(heap, cur, I.Key) = I.ValueType
    /\ pc \in {"existing", "estimate", "mergeback"} => TypesAsDeclared(heap, cur)
    /\ \A i \in 1..Len(resourceUsages) : TypesAsDeclared(heap, resourceUsages[i])

C4_Witness ==
    /\ pc = "done"
    /\ \E i \in 1..Len(resourceUsages) :
          LET ru == resourceUsages[i]
          IN /\ \E I \in SrcItems(FindMatchingResourceUsage(heap.rus[ru].Name)) :
                   I.Key = "k" /\ I.ValueType = String
             /\ FieldAt(heap, ru, "k", "Value").t = Int64
             /\ TypeAt(heap, ru, "k") = Float64
    /\ \E i \in 1..Len(resourceUsages) :
          LET ru == resourceUsages[i]
          IN /\ <<(<<"s", "a">>), String>>
                   \in DeclaredTypes(FindMatchingResourceUsage(heap.rus[ru].Name).Items, <<>>)
             /\ <<(<<"s", "a">>), Int64>> \in TreeTypes(heap, ru, <<>>)

(* C5. Result ordering: in the sorted list, of two resources whose names are
   both in the persisted order the one persisted earlier comes first; a
   resource whose name is persisted comes before one whose name is not; of two
   whose names are not persisted one holding a Value comes before one holding
   none; and otherwise the one with the smaller name comes first.  The sorted
   list is an arrangement of the list that was given. *)
Persisted(name) == \E k \in 1..Len(existingOrder) : existingOrder[k] = name
PersistedAt(name) == CHOOSE k \in 1..Len(existingOrder) : existingOrder[k] = name
HoldsValue(h, ru) ==
    \E f \in TreeFacts(h, ru, <<>>) : f[2] = "Value" /\ f[3] # "nil"
MustPrecede(h, x, y) ==
    LET nx == h.rus[x].Name
        ny == h.rus[y].Name
    IN IF Persisted(nx) /\ Persisted(ny) THEN PersistedAt(nx) < PersistedAt(ny)
       ELSE IF Persisted(nx) # Persisted(ny) THEN Persisted(nx)
       ELSE IF HoldsValue(h, x) # HoldsValue(h, y) THEN HoldsValue(h, x)
       ELSE NameLess(nx, ny)
C5_ResultOrdering ==
    pc = "done" =>
        /\ Len(resourceUsages) = Len(resources)
        /\ {resourceUsages[i] : i \in 1..Len(resourceUsages)} = 1..Len(resources)
        /\ \A p, q \in 1..Len(resourceUsages) :
              p < q => ~MustPrecede(heap, resourceUsages[q], resourceUsages[p])

\* persisted [X, Y], input [Y, Z, X] with only Z holding a Value: [X, Y, Z]
C5_Witness ==
    /\ pc = "done"
    /\ existingOrder = <<"X", "Y">>
    /\ Len(resources) = 3
    /\ <<resources[1].Name, resources[2].Name, resources[3].Name>> = <<"Y", "Z", "X">>
    /\ HoldsValue(heap, 2) /\ ~HoldsValue(heap, 1) /\ ~HoldsValue(heap, 3)
    /\ resourceUsages = <<3, 1, 2>>

(* C6. Null-drop in merge-back: for every SubResourceUsage item the merge of
   the estimated usage comes to, at any depth, that held no Value but a
   DefaultValue tree, the item's Value afterwards is a tree of exactly those
   default sub-items, in default order, whose key is not null in the
   estimation output below the item's key path, and is still absent when no
   default sub-item is one of those. *)
RECURSIVE Visited(_, _, _)
Visited(h, ru, prefix) ==
    LET its == h.rus[ru].Items
    IN UNION {LET I == h.items[its[i]]
              IN {<<its[i], Append(prefix, I.Key)>>}
                 \cup (IF I.Value.t = "ru"
                       THEN Visited(h, I.Value.v, Append(prefix, I.Key))
                       ELSE {}) : i \in 1..Len(its)}
DefaultOnly(I) ==
    I.ValueType = SubResourceUsage /\ IsNil(I.Value) /\ I.DefaultValue.t = "ru"
NonNullDefaults(I, path) ==
    SelectSeq(preHeap.rus[I.DefaultValue.v].Items,
              LAMBDA s : Append(path, preHeap.items[s].Key) \in DOMAIN resourceUsageMap)
C6_NullDrop ==
    JustEstimated =>
        \A e \in Visited(heap, cur, <<>>) :
            DefaultOnly(preHeap.items[e[1]]) =>
                LET kept == NonNullDefaults(preHeap.items[e[1]], e[2])
                    now == heap.items[e[1]].Value
                IN IF kept = <<>>
                   THEN IsNil(now)
                   ELSE now.t = "ru" /\ heap.rus[now.v].Items = kept

\* at the top, one of several default sub-items is kept and the others dropped;
\* below it, a nested item none of whose default sub-items has data stays absent
C6_Witness ==
    /\ JustEstimated
    /\ \E e \in Visited(heap, cur, <<>>) :
          /\ Len(e[2]) = 1
          /\ DefaultOnly(preHeap.items[e[1]])
          /\ Len(preHeap.rus[preHeap.items[e[1]].DefaultValue.v].Items) > 1
          /\ heap.items[e[1]].Value.t = "ru"
          /\ Len(heap.rus[heap.items[e[1]].Value.v].Items) = 1
    /\ \E e \in Visited(heap, cur, <<>>) :
          /\ Len(e[2]) = 2
          /\ DefaultOnly(preHeap.items[e[1]])
          /\ IsNil(heap.items[e[1]].Value)

(* C7. Sub-resource seeding.  As claimed: merging a SubResourceUsage src item
   that has a DefaultValue into a dest item whose Value is absent gives dest a
   Value, populated from dest's DefaultValue, that contains the default
   sub-items. *)
SeedingCases ==
    {I \in SrcItems(lastSrc) :
        /\ idx > 0
        /\ I.ValueType = SubResourceUsage
        /\ ~IsNil(I.DefaultValue)
        /\ IsNil(FieldAt(preHeap, cur, I.Key, "Value"))}
C7_SeededByDefaultValue ==
    \A I \in SeedingCases :
        LET now == heap.items[ItemAt(heap, cur, I.Key)]
        IN /\ ~IsNil(now.Value)
           /\ KeysOf(heap, now.DefaultValue.v) \subseteq KeysOf(heap, now.Value.v)

(* C7 as amended: the seeding is done only when the src item also has a Value.
   Then dest's Value is dest's DefaultValue tree itself, and holds the default
   sub-items and every sub-item of src's Value; with no src Value, dest's
   Value stays absent. *)
C7_SeededWhenSrcHasValue ==
    \A I \in SeedingCases :
        LET now == heap.items[ItemAt(heap, cur, I.Key)]
        IN IF IsNil(I.Value)
           THEN IsNil(now.Value)
           ELSE /\ now.Value = now.DefaultValue
                /\ now.Value.t = "ru"
                /\ (SrcKeys(I.DefaultValue.v) \cup SrcKeys(I.Value.v)
                    \cup (IF FieldAt(preHeap, cur, I.Key, "DefaultValue").t = "ru"
                          THEN KeysOf(preHeap, FieldAt(preHeap, cur, I.Key, "DefaultValue").v)
                          ELSE {}))
                   \subseteq KeysOf(heap, now.Value.v)

C7_Witness ==
    \E I \in SeedingCases :
        /\ ~IsNil(I.Value)
        /\ FieldAt(preHeap, cur, I.Key, "DefaultValue").t = "ru"
        /\ heap.items[ItemAt(heap, cur, I.Key)].Value.t = "ru"
        /\ SrcKeys(I.Value.v) \ KeysOf(preHeap, FieldAt(preHeap, cur, I.Key, "DefaultValue").v)
              # {}
        /\ KeysOf(preHeap, FieldAt(preHeap, cur, I.Key, "DefaultValue").v)
              \ (SrcKeys(I.Value.v) \cup SrcKeys(I.DefaultValue.v)) # {}

(* C8. A src without a Value leaves dest's Value alone: for every key K for
   which dest holds a Value and src holds only a DefaultValue, dest's Value
   for K after mergeResourceUsages equals the one before, sub-items included. *)
SameValue(h1, x1, h2, x2) ==
    /\ x1.t = x2.t
    /\ IF x1.t = "ru"
       THEN TreeFacts(h1, x1.v, <<>>) = TreeFacts(h2, x2.v, <<>>)
       ELSE x1.v = x2.v
C8_DefaultOnlySrcKeepsValue ==
    \A I \in SrcItems(lastSrc) :
        (/\ idx > 0
         /\ IsNil(I.Value)
         /\ ~IsNil(I.DefaultValue)
         /\ ~IsNil(FieldAt(preHeap, cur, I.Key, "Value")))
        => SameValue(heap, FieldAt(heap, cur, I.Key, "Value"),
                     preHeap, FieldAt(preHeap, cur, I.Key, "Value"))

(* C9. Shape invariant: in every tree a pass produces, a present Value and a
   present DefaultValue of an item have the shape the item's ValueType
   declares. *)
HasShape(x, valueType) ==
    \/ IsNil(x)
    \/ IF valueType = SubResourceUsage THEN x.t = "ru" ELSE x.t = valueType
C9_ShapeMatchesValueType ==
    pc = "done" =>
        \A i \in 1..Len(resourceUsages) :
            \A it \in AllItems(heap, resourceUsages[i]) :
                /\ HasShape(heap.items[it].Value, heap.items[it].ValueType)
                /\ HasShape(heap.items[it].DefaultValue, heap.items[it].ValueType)

(* C10. DefaultValue trees change only by the merge of a src DefaultValue: the
   merge of the saved usage, for the keys it gives no DefaultValue for, and
   the merge of the estimated usage leave every item's DefaultValue tree as it
   was: no sub-item of it gains a Value and no sub-item is added to it. *)
C10_DefaultTreesUnchanged ==
    (JustBuilt \/ JustEstimated) =>
        \A i \in 1..Len(preHeap.rus[cur].Items) :
            LET before == preHeap.items[preHeap.rus[cur].Items[i]]
            IN (/\ before.DefaultValue.t = "ru"
                /\ JustBuilt => IsNil(SrcField(lastSrc, before.Key, "DefaultValue")))
               => TreeFacts(heap, before.DefaultValue.v, <<>>)
                  = TreeFacts(preHeap, before.DefaultValue.v, <<>>)

====
